---- MODULE Spec2Model ----
(***************************************************************************)
(* A model of the storage core of mega: the delta crate (delta_encode,     *)
(* delta_encode_rate, delta_decode) and the Blob object of venus; of       *)
(* libra's init command; and of the sidecar supervision of lunar.          *)
(*                                                                         *)
(* src/delta/src/lib.rs holds only the public entry points; the modules    *)
(* encode, decode, errors and utils it declares, and venus' hash module,   *)
(* are modelled from the specification (sections 3, 4.1, 4.3 and 4.4).     *)
(***************************************************************************)
EXTENDS Integers, Sequences, FiniteSets, TLC

VARIABLES
    old_data,   \* the base byte sequence handed to the delta functions
    new_data,   \* the target byte sequence handed to the delta functions
    delta,      \* the delta in hand (encoded, or hand-crafted)
    origin,     \* "none" | "encoded" | "crafted": where delta comes from
    decoded,    \* the result of delta_decode(old_data, delta)
    rate,       \* the result of delta_encode_rate(old_data, new_data)
    pc,         \* "start" | "have_delta" | "decoded"
    objs,       \* the Blob objects constructed so far, each with how it was built
    last,       \* the last Blob operation: its arguments and its result
    fs,         \* libra init: the paths that exist under the current directory
    db,         \* libra init: per root directory, the rows of its database
    init_res,   \* libra init: what the last init call returned
    init_done,  \* libra init: an init call has returned Ok in this directory
    init_calls, \* libra init: the init calls made so far
    child,      \* lunar: ServiceState.child, 0 for None, else the sidecar's number
    with_relay, \* lunar: ServiceState.with_relay
    procs,      \* lunar: the sidecar processes spawned so far
    restart,    \* lunar: a restart_mega_service call between its two steps
    svc_last    \* lunar: the last command that returned, with what it saw and did

repoVars == <<fs, db, init_res, init_done, init_calls>>
svcVars == <<child, with_relay, procs, restart, svc_last>>
deltaVars == <<old_data, new_data, delta, origin, decoded, rate, pc>>
blobVars == <<objs, last>>
vars == <<deltaVars, blobVars, repoVars, svcVars>>

----------------------------------------------------------------------------
(* Bounds of the model *)

\* Longest old_data / new_data.
MaxLen == 3
\* Longest hand-crafted delta.
MaxDeltaLen == 5
\* Longest Blob payload.
MaxContentLen == 1
\* How many Blob objects are kept.
MaxBlobs == 3

\* The bytes old_data, new_data and Blob payloads are drawn from.
DataBytes == {0, 1}
\* The bytes hand-crafted deltas are drawn from: small counts, offsets and
\* lengths, and the copy opcode.
CraftBytes == {0, 1, 2, 128}

SeqsUpTo(S, n) == UNION {[1..k -> S] : k \in 0..n}

----------------------------------------------------------------------------
(* Delta format (spec section 3): an ordered sequence of instructions.     *)
(*   insert: one byte n < COPY_FLAG, then n literal bytes;                 *)
(*   copy:   one byte >= COPY_FLAG, then one offset byte, one length byte. *)

COPY_FLAG == 128
\* The longest literal run one insert instruction announces.
DATA_INS_LEN == 127
\* A match shorter than this is folded into the surrounding insert run; it
\* is also the size of the windows of old_data that are indexed.
MIN_COPY_LEN == 2

Ok(bytes) == [err |-> "None", data |-> bytes]
Err(kind) == [err |-> kind, data |-> <<>>]

CopyOp(begin, size) == [ins |-> "Copy", begin |-> begin, size |-> size]
DataOp(begin, size) == [ins |-> "Data", begin |-> begin, size |-> size]

----------------------------------------------------------------------------
(* Delta Diff Engine (spec section 4.3) *)

\* The chunk index: the offsets (1-based) in old at which window w occurs.
ChunkIndex(old, w) ==
    {i \in 1..(Len(old) - Len(w) + 1) : SubSeq(old, i, i + Len(w) - 1) = w}

RECURSIVE MatchLen(_, _, _, _)
\* The length of the common run of old from i and new from j.
MatchLen(old, new, i, j) ==
    IF i > Len(old) \/ j > Len(new) THEN 0
    ELSE IF old[i] # new[j] THEN 0
    ELSE 1 + MatchLen(old, new, i + 1, j + 1)

\* The longest run of old matching new from position j, found through the
\* chunk index; among the longest, the earliest offset in old.
LongestMatch(old, new, j) ==
    IF j + MIN_COPY_LEN - 1 > Len(new) THEN [off |-> 0, len |-> 0]
    ELSE LET cands == ChunkIndex(old, SubSeq(new, j, j + MIN_COPY_LEN - 1))
         IN  IF cands = {} THEN [off |-> 0, len |-> 0]
             ELSE LET best == CHOOSE c \in cands :
                                \A d \in cands :
                                    \/ MatchLen(old, new, d, j) < MatchLen(old, new, c, j)
                                    \/ /\ MatchLen(old, new, d, j) = MatchLen(old, new, c, j)
                                       /\ c <= d
                  IN  [off |-> best - 1, len |-> MatchLen(old, new, best, j)]

\* One unmatched byte of new (0-based position at) joins the insert run.
AddLiteral(ops, at) ==
    IF /\ Len(ops) > 0
       /\ ops[Len(ops)].ins = "Data"
       /\ ops[Len(ops)].begin + ops[Len(ops)].size = at
       /\ ops[Len(ops)].size < DATA_INS_LEN
    THEN [ops EXCEPT ![Len(ops)].size = @ + 1]
    ELSE Append(ops, DataOp(at, 1))

RECURSIVE Scan(_, _, _, _)
\* The greedy scan of new from position j (1-based).
Scan(old, new, j, ops) ==
    IF j > Len(new) THEN ops
    ELSE LET m == LongestMatch(old, new, j)
         IN  IF m.len >= MIN_COPY_LEN
             THEN Scan(old, new, j + m.len, Append(ops, CopyOp(m.off, m.len)))
             ELSE Scan(old, new, j + 1, AddLiteral(ops, j - 1))

\* The match set: the edge cases of section 4.3 first, then the greedy scan.
Diff(old, new) ==
    IF new = <<>> THEN <<>>
    ELSE IF old = new THEN <<CopyOp(0, Len(new))>>
    ELSE Scan(old, new, 1, <<>>)

RECURSIVE CopiedBytes(_)
\* The bytes of new that copy instructions produce.
CopiedBytes(ops) ==
    IF ops = <<>> THEN 0
    ELSE (IF Head(ops).ins = "Copy" THEN Head(ops).size ELSE 0) + CopiedBytes(Tail(ops))

\* The similarity ratio, a fraction num/den: the share of new's bytes that
\* copy instructions satisfy; an empty new needs no new byte at all.
Ratio(ops, new) ==
    IF new = <<>> THEN [num |-> 1, den |-> 1]
    ELSE [num |-> CopiedBytes(ops), den |-> Len(new)]

\* DeltaDiff::new: the session built for one (old, new) pair.
DeltaDiff_new(old, new) ==
    LET ops == Diff(old, new)
    IN  [ops |-> ops, old_data |-> old, new_data |-> new, ssam_r |-> Ratio(ops, new)]

\* One instruction as bytes.
EncodeOp(differ, op) ==
    IF op.ins = "Copy"
    THEN <<COPY_FLAG, op.begin, op.size>>
    ELSE <<op.size>> \o SubSeq(differ.new_data, op.begin + 1, op.begin + op.size)

RECURSIVE EncodeOps(_, _)
EncodeOps(differ, ops) ==
    IF ops = <<>> THEN <<>>
    ELSE EncodeOp(differ, Head(ops)) \o EncodeOps(differ, Tail(ops))

\* DeltaDiff::encode
encode(differ) == EncodeOps(differ, differ.ops)

\* DeltaDiff::get_ssam_rate
get_ssam_rate(differ) == differ.ssam_r

\* The mutant: the two arguments are handed to DeltaDiff::new swapped.
delta_encode_rate_Swapped(old, new) == get_ssam_rate(DeltaDiff_new(new, old))

delta_encode_rate(old, new) == get_ssam_rate(DeltaDiff_new(old, new))

\* The mutant: the two arguments are handed to DeltaDiff::new swapped.
delta_encode_Swapped(old, new) == encode(DeltaDiff_new(new, old))

\* The mutant: old_data is handed to DeltaDiff::new twice.
delta_encode_OldTwice(old, new) == encode(DeltaDiff_new(old, old))

delta_encode(old, new) == encode(DeltaDiff_new(old, new))

----------------------------------------------------------------------------
(* Delta Apply (Decode) Engine (spec section 4.4) *)

\* The mutant: an out-of-range copy is clipped to what base holds.
apply_copy_Clipped(base, off, len) ==
    Ok(SubSeq(base, off + 1, IF off + len > Len(base) THEN Len(base) ELSE off + len))

\* A copy instruction: base[off .. off+len).
apply_copy(base, off, len) ==
    IF off + len > Len(base) THEN Err("OutOfRange")
    ELSE Ok(SubSeq(base, off + 1, off + len))

\* The mutant: an insert announcing more bytes than remain takes what is left.
apply_insert_Clipped(dlt, pos, n) ==
    Ok(SubSeq(dlt, pos + 1, IF pos + n > Len(dlt) THEN Len(dlt) ELSE pos + n))

\* An insert instruction at pos announcing n literal bytes.
apply_insert(dlt, pos, n) ==
    IF pos + n > Len(dlt) THEN Err("Truncated")
    ELSE Ok(SubSeq(dlt, pos + 1, pos + n))

RECURSIVE Walk(_, _, _, _)
\* The walk over the instruction stream, in order, from pos (1-based).
Walk(base, dlt, pos, out) ==
    IF pos > Len(dlt) THEN Ok(out)
    ELSE IF dlt[pos] >= COPY_FLAG
    THEN IF pos + 2 > Len(dlt) THEN Err("Truncated")
         ELSE LET r == apply_copy(base, dlt[pos + 1], dlt[pos + 2])
              IN  IF r.err # "None" THEN r
                  ELSE Walk(base, dlt, pos + 3, out \o r.data)
    ELSE LET r == apply_insert(dlt, pos, dlt[pos])
         IN  IF r.err # "None" THEN r
             ELSE Walk(base, dlt, pos + 1 + Len(r.data), out \o r.data)

delta_decode(base, dlt) == Walk(base, dlt, 1, <<>>)

----------------------------------------------------------------------------
(* Content Hasher (spec sections 3 and 4.1): the digest of a type tag, the *)
(* payload length and the payload bytes, in that order. The digest is kept *)
(* as what it is computed over: equal inputs give equal digests, and no    *)
(* two inputs collide.                                                     *)

from_type_and_data(object_type, data) == <<object_type, Len(data), data>>

\* No digest: what a call that takes no digest is recorded with.
NoDigest == <<"none", 0, <<>>>>

----------------------------------------------------------------------------
(* The Blob object (venus, internal/object/blob.rs) *)

\* struct Blob { id, data }
Blob(id, data) == [id |-> id, data |-> data]

NoBlob == Blob(NoDigest, <<>>)
\* No Blob operation yet.
NoBlobOp ==
    [op |-> "none", data |-> <<>>, hash |-> NoDigest, ok |-> TRUE,
     res |-> NoBlob, src |-> NoBlob]

\* Result<_, GitError>
ResultOk(v) == [ok |-> TRUE, val |-> v]
ResultErr(v) == [ok |-> FALSE, val |-> v]

\* The mutant: the doc comment's equality, by id.
eq_ById(self, other) == self.id = other.id

\* impl PartialEq for Blob
eq(self, other) == self.data = other.data

\* The mutant: the supplied digest is checked against the payload.
from_bytes_Verified(data, hash) ==
    IF hash = from_type_and_data("blob", data)
    THEN ResultOk(Blob(hash, data))
    ELSE ResultErr(Blob(hash, data))

\* ObjectTrait::from_bytes
from_bytes(data, hash) == ResultOk(Blob(hash, data))

\* ObjectTrait::get_type
get_type(self) == "blob"

\* ObjectTrait::get_size
get_size(self) == Len(self.data)

\* The mutant: the object header (the length) is written before the payload.
to_data_WithHeader(self) == ResultOk(<<Len(self.data)>> \o self.data)

\* ObjectTrait::to_data
to_data(self) == ResultOk(self.data)

\* The mutant: the digest is taken before the content is filled in.
from_content_HashFirst(content) ==
    Blob(from_type_and_data("blob", <<>>), content)

\* The mutant: a digest the caller supplied to the previous call is reused.
from_content_SuppliedDigest(content) ==
    Blob(IF last.op = "from_bytes" THEN last.hash
         ELSE from_type_and_data("blob", content), content)

\* Blob::from_content; content is the str's bytes (as_bytes().to_vec()).
from_content(content) ==
    Blob(from_type_and_data("blob", content), content)


NotRun == [err |-> "NotRun", data |-> <<>>]
NoRate == [num |-> -1, den |-> 0]

----------------------------------------------------------------------------
(* The parts of the state a specification does not exercise stay as they   *)
(* are after construction.                                                 *)

\* No init call yet.
NoInitRes == [ok |-> TRUE, kind |-> "None", msg |-> "", bare |-> FALSE]
\* A database that does not exist.
NoDb == [created |-> FALSE, config |-> {}, refs |-> {}]
\* No command has returned yet.
NoCommand ==
    [cmd |-> "none", params |-> "none", res |-> "Ok", started |-> FALSE,
     pre_child |-> 0, pre_relay |-> FALSE, pre_terminated |-> FALSE,
     kill_ok |-> FALSE, spawned |-> 0, post_child |-> 0, post_relay |-> FALSE,
     running |-> FALSE, relay |-> FALSE]

DeltaIdle ==
    /\ old_data = <<>>
    /\ new_data = <<>>
    /\ delta = <<>>
    /\ origin = "none"
    /\ decoded = NotRun
    /\ rate = NoRate
    /\ pc = "start"

BlobIdle ==
    /\ objs = {}
    /\ last = NoBlobOp

\* An empty current directory.
RepoIdle ==
    /\ fs = {}
    /\ db = [r \in {".", ".libra"} |-> NoDb]
    /\ init_res = NoInitRes
    /\ init_done = FALSE
    /\ init_calls = 0

\* ServiceState::default(), no sidecar spawned.
ServiceIdle ==
    /\ child = 0
    /\ with_relay = FALSE
    /\ procs = <<>>
    /\ restart = [pc |-> "idle", params |-> "none", killed |-> FALSE]
    /\ svc_last = NoCommand

----------------------------------------------------------------------------
(* The delta functions as a state machine: a caller holds one (old, new)   *)
(* pair, may ask for the similarity ratio, obtains a delta (by encoding,   *)
(* or hand-crafted: then no target is involved) and decodes it against old.*)

DeltaInit ==
    /\ old_data \in SeqsUpTo(DataBytes, MaxLen)
    /\ new_data \in SeqsUpTo(DataBytes, MaxLen)
    /\ delta = <<>>
    /\ origin = "none"
    /\ decoded = NotRun
    /\ rate = NoRate
    /\ pc = "start"
    /\ BlobIdle
    /\ RepoIdle
    /\ ServiceIdle

DeltaEncode ==
    /\ pc = "start"
    /\ delta' = delta_encode(old_data, new_data)
    /\ origin' = "encoded"
    /\ pc' = "have_delta"
    /\ UNCHANGED <<old_data, new_data, decoded, rate, objs, last, repoVars, svcVars>>

CraftDelta ==
    /\ pc = "start"
    /\ new_data = <<>>
    /\ \E d \in SeqsUpTo(CraftBytes, MaxDeltaLen) : delta' = d
    /\ origin' = "crafted"
    /\ pc' = "have_delta"
    /\ UNCHANGED <<old_data, new_data, decoded, rate, objs, last, repoVars, svcVars>>

DeltaDecode ==
    /\ pc = "have_delta"
    /\ decoded' = delta_decode(old_data, delta)
    /\ pc' = "decoded"
    /\ UNCHANGED <<old_data, new_data, delta, origin, rate, objs, last, repoVars, svcVars>>

DeltaEncodeRate ==
    /\ pc = "start"
    /\ rate = NoRate
    /\ rate' = delta_encode_rate(old_data, new_data)
    /\ UNCHANGED <<old_data, new_data, delta, origin, decoded, pc, objs, last, repoVars, svcVars>>

DeltaNext == DeltaEncode \/ CraftDelta \/ DeltaDecode \/ DeltaEncodeRate

SpecDelta == DeltaInit /\ [][DeltaNext]_vars

----------------------------------------------------------------------------
(* The vocabulary of the delta claims: the instructions a delta consists   *)
(* of, read off its bytes without a base.                                  *)

RECURSIVE ParseInstrs(_, _, _)
ParseInstrs(dlt, pos, acc) ==
    IF pos > Len(dlt) THEN [instrs |-> acc, complete |-> TRUE]
    ELSE IF dlt[pos] >= COPY_FLAG
    THEN IF pos + 2 > Len(dlt) THEN [instrs |-> acc, complete |-> FALSE]
         ELSE ParseInstrs(dlt, pos + 3,
                  Append(acc, [kind |-> "copy", off |-> dlt[pos + 1],
                               len |-> dlt[pos + 2], lit |-> <<>>]))
    ELSE IF pos + dlt[pos] > Len(dlt) THEN [instrs |-> acc, complete |-> FALSE]
         ELSE ParseInstrs(dlt, pos + 1 + dlt[pos],
                  Append(acc, [kind |-> "insert", off |-> 0, len |-> dlt[pos],
                               lit |-> SubSeq(dlt, pos + 1, pos + dlt[pos])]))

Instrs(dlt) == ParseInstrs(dlt, 1, <<>>).instrs

\* The stream ends in the middle of an instruction.
EndsMidInstruction(dlt) == ~ParseInstrs(dlt, 1, <<>>).complete

\* The delta contains a copy instruction reaching beyond base.
HasOutOfRangeCopy(base, dlt) ==
    \E k \in 1..Len(Instrs(dlt)) :
        /\ Instrs(dlt)[k].kind = "copy"
        /\ Instrs(dlt)[k].off + Instrs(dlt)[k].len > Len(base)

RECURSIVE Literals(_)
\* The literal bytes of a sequence of instructions, in order.
Literals(is) == IF is = <<>> THEN <<>> ELSE Head(is).lit \o Literals(Tail(is))

----------------------------------------------------------------------------
(* C1: for every old and new (the empty ones and old = new included),      *)
(* decoding the output of delta_encode(old, new) against old succeeds and  *)
(* returns exactly new.                                                    *)
C1_RoundTrip ==
    (pc = "decoded" /\ origin = "encoded") => decoded = Ok(new_data)

\* A decoded delta of a copy followed by an insert.
C1_Witness ==
    /\ pc = "decoded" /\ origin = "encoded"
    /\ old_data # <<>> /\ new_data # old_data
    /\ Len(Instrs(delta)) = 2
    /\ Instrs(delta)[1].kind = "copy" /\ Instrs(delta)[2].kind = "insert"
    /\ decoded = Ok(new_data)

(* C2: a delta containing a copy instruction whose offset+length exceeds   *)
(* the length of base decodes to the error OutOfRange: never to a          *)
(* shortened or partial output, never to success.                          *)
C2_OutOfRange ==
    (pc = "decoded" /\ HasOutOfRangeCopy(old_data, delta))
        => decoded = Err("OutOfRange")

\* An out-of-range copy that follows an insert which already produced output.
C2_Witness ==
    /\ pc = "decoded" /\ origin = "crafted"
    /\ Len(Instrs(delta)) = 2
    /\ Instrs(delta)[1].kind = "insert" /\ Instrs(delta)[1].len > 0
    /\ Instrs(delta)[2].kind = "copy"
    /\ Instrs(delta)[2].off < Len(old_data)
    /\ Instrs(delta)[2].off + Instrs(delta)[2].len > Len(old_data)
    /\ decoded = Err("OutOfRange")

(* C3 as stated: a delta whose instruction stream ends in the middle of an *)
(* instruction decodes to the error Truncated.                             *)
C3_Original ==
    (pc = "decoded" /\ EndsMidInstruction(delta)) => decoded = Err("Truncated")

(* C3 as amended: a delta whose instruction stream ends in the middle of   *)
(* an instruction decodes to an error, never to a byte sequence: to        *)
(* Truncated, unless a copy instruction before the cut is out of range     *)
(* for base, and then to OutOfRange.                                       *)
C3_Truncated ==
    (pc = "decoded" /\ EndsMidInstruction(delta))
        => decoded = Err(IF HasOutOfRangeCopy(old_data, delta)
                         THEN "OutOfRange" ELSE "Truncated")

\* An insert announcing more bytes than remain, after a copy that succeeded.
C3_Witness ==
    /\ pc = "decoded" /\ origin = "crafted"
    /\ EndsMidInstruction(delta)
    /\ Len(Instrs(delta)) = 1
    /\ Instrs(delta)[1].kind = "copy" /\ Instrs(delta)[1].len > 0
    /\ delta[4] < COPY_FLAG
    /\ decoded = Err("Truncated")

(* C4: delta_encode_rate(old, new) lies in [0.0, 1.0]; it is 1.0 whenever  *)
(* old = new and 0.0 whenever old is empty and new is not.                 *)
C4_RateBounds ==
    rate # NoRate =>
        /\ rate.den > 0
        /\ 0 <= rate.num /\ rate.num <= rate.den
        /\ (old_data = new_data => rate.num = rate.den)
        /\ (old_data = <<>> /\ new_data # <<>> => rate.num = 0)

\* A ratio strictly between 0.0 and 1.0.
C4_Witness ==
    /\ rate # NoRate
    /\ 0 < rate.num /\ rate.num < rate.den

\* The shape of the encoded stream when old is empty, and when new is empty.
C5_EmptyShapes ==
    /\ ParseInstrs(delta, 1, <<>>).complete
    /\ (old_data = <<>> =>
            /\ \A k \in 1..Len(Instrs(delta)) : Instrs(delta)[k].kind = "insert"
            /\ Literals(Instrs(delta)) = new_data)
    /\ (new_data = <<>> => Instrs(delta) = <<>>)

\* The encoded stream is one copy instruction spanning the whole of new.
C5_SingleCopy ==
    Instrs(delta) = <<[kind |-> "copy", off |-> 0, len |-> Len(new_data), lit |-> <<>>]>>

(* C5 as stated: the stream of delta_encode is only inserts covering new   *)
(* when old is empty, empty when new is empty, and a single copy spanning  *)
(* the whole sequence when old = new.                                      *)
C5_Original ==
    origin = "encoded" =>
        /\ C5_EmptyShapes
        /\ (old_data = new_data => C5_SingleCopy)

(* C5 as amended: the stream of delta_encode is only inserts covering new  *)
(* when old is empty, empty when new is empty, and a single copy spanning  *)
(* the whole sequence when old = new and they are not empty.               *)
C5_Shapes ==
    origin = "encoded" =>
        /\ C5_EmptyShapes
        /\ (old_data = new_data /\ new_data # <<>> => C5_SingleCopy)

\* An encoded delta of equal, non-empty old and new.
C5_Witness ==
    /\ origin = "encoded"
    /\ old_data = new_data /\ Len(new_data) = 1
    /\ C5_SingleCopy

RECURSIVE CopiedByInstrs(_)
\* The bytes the copy instructions of a sequence of instructions produce.
CopiedByInstrs(is) ==
    IF is = <<>> THEN 0
    ELSE (IF Head(is).kind = "copy" THEN Head(is).len ELSE 0) + CopiedByInstrs(Tail(is))

(* C12 as stated: delta_encode_rate(old, new) is the number of bytes of    *)
(* new that the copy instructions of delta_encode(old, new) produce,       *)
(* divided by the length of new: the quotient exists and the ratio is it.  *)
C12_Original ==
    (rate # NoRate /\ origin = "encoded") =>
        /\ Len(new_data) > 0
        /\ rate.num * Len(new_data) = CopiedByInstrs(Instrs(delta)) * rate.den

(* C12 as amended: for a non-empty new, delta_encode_rate(old, new) is the *)
(* number of bytes of new that the copy instructions of                    *)
(* delta_encode(old, new) produce, divided by the length of new, although  *)
(* the two functions build separate DeltaDiff sessions.                    *)
C12_SameMatchSet ==
    (rate # NoRate /\ origin = "encoded" /\ new_data # <<>>) =>
        /\ rate.den > 0
        /\ rate.num * Len(new_data) = CopiedByInstrs(Instrs(delta)) * rate.den

\* A ratio and a delta of the same pair, with copied and inserted bytes.
C12_Witness ==
    /\ rate # NoRate /\ origin = "encoded"
    /\ 0 < CopiedByInstrs(Instrs(delta))
    /\ CopiedByInstrs(Instrs(delta)) < Len(new_data)
    /\ rate.num = CopiedByInstrs(Instrs(delta))

----------------------------------------------------------------------------
(* The Blob constructions as a state machine: callers build blobs from     *)
(* content, re-hydrate them from stored bytes and a digest they supply,    *)
(* and rebuild a blob from its own serialization.                          *)

Contents == SeqsUpTo(DataBytes, MaxContentLen)

\* The digests a caller supplies with payload data: the right one, and the
\* digest of another payload.
SuppliedDigests(data) ==
    {from_type_and_data("blob", d) : d \in {data, <<0>>}}

\* The objects kept: a new one is kept while there is room.
Keep(entry) == IF Cardinality(objs) < MaxBlobs THEN objs \cup {entry} ELSE objs

BlobInit ==
    /\ DeltaIdle
    /\ objs = {}
    /\ last = NoBlobOp
    /\ RepoIdle
    /\ ServiceIdle

BlobFromContent ==
    \E c \in Contents :
        LET b == from_content(c)
        IN  /\ objs' = Keep([blob |-> b, via |-> "from_content", given |-> NoDigest])
            /\ last' = [op |-> "from_content", data |-> c, hash |-> NoDigest,
                        ok |-> TRUE, res |-> b, src |-> NoBlob]
            /\ UNCHANGED <<deltaVars, repoVars, svcVars>>

BlobFromBytes ==
    \E d \in Contents :
        \E h \in SuppliedDigests(d) :
            LET r == from_bytes(d, h)
            IN  /\ objs' = IF r.ok
                           THEN Keep([blob |-> r.val, via |-> "from_bytes", given |-> h])
                           ELSE objs
                /\ last' = [op |-> "from_bytes", data |-> d, hash |-> h,
                            ok |-> r.ok, res |-> r.val, src |-> NoBlob]
                /\ UNCHANGED <<deltaVars, repoVars, svcVars>>

\* from_bytes(to_data(x), x.id) for a blob x that exists.
BlobRoundTrip ==
    \E o \in objs :
        LET x == o.blob
            bytes == to_data(x)
            r == from_bytes(bytes.val, x.id)
        IN  /\ bytes.ok
            /\ last' = [op |-> "round_trip", data |-> bytes.val, hash |-> x.id,
                        ok |-> r.ok, res |-> r.val, src |-> x]
            /\ UNCHANGED <<objs, deltaVars, repoVars, svcVars>>

BlobNext == BlobFromContent \/ BlobFromBytes \/ BlobRoundTrip

SpecBlob == BlobInit /\ [][BlobNext]_vars

\* The digest of a blob's own payload under its own type tag.
OwnDigest(b) == from_type_and_data(get_type(b), b.data)

----------------------------------------------------------------------------
(* C6 as stated: every Blob that exists after any sequence of from_content *)
(* and from_bytes constructions has id = hash(Blob type tag, payload).     *)
C6_Original ==
    \A o \in objs : o.blob.id = OwnDigest(o.blob)

(* C6 as amended: every Blob built by from_content, and every Blob built   *)
(* by from_bytes from a digest that is hash(Blob type tag, payload), has   *)
(* id = hash(Blob type tag, payload).                                      *)
C6_IdIsHash ==
    \A o \in objs :
        (o.via = "from_content" \/ o.given = OwnDigest(o.blob))
            => o.blob.id = OwnDigest(o.blob)

\* A blob from content and a blob re-hydrated with the right digest.
C6_Witness ==
    /\ \E o \in objs : o.via = "from_content" /\ o.blob.data # <<>>
    /\ \E o \in objs : o.via = "from_bytes" /\ o.given = OwnDigest(o.blob)

(* C7: from_content takes no digest from its caller: the id of the blob it *)
(* returns is the Content Hasher's digest of the Blob type tag and the     *)
(* content, so two calls with the same content return the same id.         *)
C7_ContentDigest ==
    /\ last.op = "from_content" =>
          /\ last.hash = NoDigest
          /\ last.res.id = from_type_and_data("blob", last.data)
          /\ last.res.data = last.data
    /\ \A o1, o2 \in objs :
          (o1.via = "from_content" /\ o2.via = "from_content"
              /\ o1.blob.data = o2.blob.data) => o1.blob.id = o2.blob.id

\* from_content called again with content that a blob with another id holds.
C7_Witness ==
    /\ last.op = "from_content" /\ last.data # <<>>
    /\ \E o \in objs : o.via = "from_content" /\ o.blob = last.res
    /\ \E o \in objs : o.via = "from_bytes" /\ o.blob.data = last.data
                         /\ o.blob.id # last.res.id

C9_FromBytes ==
    last.op = "from_bytes" =>
        /\ last.ok
        /\ last.res.id = last.hash
        /\ last.res.data = last.data

\* from_bytes given a digest that is not the payload's.
C9_Witness ==
    /\ last.op = "from_bytes"
    /\ last.hash # from_type_and_data("blob", last.data)
    /\ last.data # <<>>
    /\ last.ok

(* C10: rebuilding a Blob x with from_bytes from to_data(x) and x.id and   *)
(* serializing again gives the bytes of to_data(x); the rebuilt blob has   *)
(* the same id, the same type tag and a get_size equal to the payload      *)
(* length.                                                                 *)
C10_RoundTrip ==
    last.op = "round_trip" =>
        /\ last.ok
        /\ to_data(last.res) = ResultOk(last.data)
        /\ to_data(last.res) = to_data(last.src)
        /\ last.res.id = last.src.id
        /\ get_type(last.res) = get_type(last.src)
        /\ get_size(last.res) = Len(last.src.data)

\* A round trip of a blob with a payload, whose id is not its digest.
C10_Witness ==
    /\ last.op = "round_trip"
    /\ last.src.data # <<>>
    /\ last.src.id # OwnDigest(last.src)
    /\ last.res = last.src

----------------------------------------------------------------------------
(* libra init (libra/src/command/init.rs). The current directory holds     *)
(* paths <<root, name>>: root "." for a bare repository, ROOT_DIR for a    *)
(* non-bare one. Every io step of init may fail and end the call there.    *)

\* How many init calls are followed.
MaxInitCalls == 3

ROOT_DIR == ".libra"
DATABASE == "libra.db"

\* The directories init creates, in order.
InitDirs == <<"objects/pack", "objects/info", "info">>

\* init_config's rows (not on Windows), inserted in one transaction.
ConfigEntries ==
    {<<"core", "repositoryformatversion", "0">>, <<"core", "filemode", "true">>,
     <<"core", "bare", "false">>, <<"core", "logallrefupdates", "true">>}

\* The HEAD reference init inserts.
HeadRef == [name |-> "master", kind |-> "Head"]

\* The steps of init that can fail, in order; 0 is a call in which none does.
FailNone == 0
FailDirPack == 1
FailDirInfo == 2
FailDirRootInfo == 3
FailExclude == 4
FailDescription == 5
FailDatabase == 6
FailConfig == 7
FailHead == 8

IoError(bare) == [ok |-> FALSE, kind |-> "Other", msg |-> "io", bare |-> bare]
Panicked(bare) == [ok |-> FALSE, kind |-> "Panic", msg |-> "unwrap", bare |-> bare]

\* The mutant: only the description of a non-bare repository is looked for.
is_reinit_HeadOnly(files) == <<ROOT_DIR, "description">> \in files

\* is_reinit: a description file exists, of a non-bare or of a bare repository.
is_reinit(files) ==
    <<ROOT_DIR, "description">> \in files \/ <<".", "description">> \in files

\* init(args) in a directory that holds files and databases dbs. fail is the
\* step whose io fails (FailNone: none); left tells whether a write that
\* failed left its file behind.
init(bare, files, dbs, fail, left) ==
    LET root_dir == IF bare THEN "." ELSE ROOT_DIR
        dirs(n) == {<<root_dir, InitDirs[k]>> : k \in 1..n}
        written(step, name) ==
            IF fail = step /\ ~left THEN {} ELSE {<<root_dir, name>>}
        f3 == files \cup dirs(3)
        f4 == f3 \cup written(FailExclude, "info/exclude")
        f5 == f4 \cup written(FailDescription, "description")
        f6 == f5 \cup {<<root_dir, DATABASE>>}
        created == [dbs EXCEPT ![root_dir].created = TRUE]
        configured == [created EXCEPT ![root_dir].config = @ \cup ConfigEntries]
        headed == [configured EXCEPT ![root_dir].refs = @ \cup {HeadRef}]
    IN  IF is_reinit(files)
        THEN [fs |-> files, db |-> dbs,
              res |-> [ok |-> FALSE, kind |-> "AlreadyExists",
                       msg |-> "Already initialized", bare |-> bare]]
        ELSE IF fail \in {FailDirPack, FailDirInfo, FailDirRootInfo}
        THEN [fs |-> files \cup dirs(fail - 1), db |-> dbs, res |-> IoError(bare)]
        ELSE IF fail = FailExclude
        THEN [fs |-> f4, db |-> dbs, res |-> IoError(bare)]
        ELSE IF fail = FailDescription
        THEN [fs |-> f5, db |-> dbs, res |-> IoError(bare)]
        ELSE IF fail = FailDatabase
        THEN [fs |-> f5, db |-> dbs, res |-> IoError(bare)]
        ELSE IF fail = FailConfig
        THEN [fs |-> f6, db |-> created, res |-> Panicked(bare)]
        ELSE IF fail = FailHead
        THEN [fs |-> f6, db |-> configured, res |-> Panicked(bare)]
        ELSE [fs |-> f6, db |-> headed,
              res |-> [ok |-> TRUE, kind |-> "None", msg |-> "", bare |-> bare]]

RepoInit ==
    /\ DeltaIdle
    /\ BlobIdle
    /\ RepoIdle
    /\ ServiceIdle

\* One init call, with either value of the bare flag.
InitCall ==
    /\ init_calls < MaxInitCalls
    /\ \E bare \in BOOLEAN, fail \in FailNone..FailHead, left \in BOOLEAN :
          LET r == init(bare, fs, db, fail, left)
          IN  /\ fs' = r.fs
              /\ db' = r.db
              /\ init_res' = r.res
              /\ init_done' = (init_done \/ r.res.ok)
    /\ init_calls' = init_calls + 1
    /\ UNCHANGED <<deltaVars, blobVars, svcVars>>

RepoNext == InitCall

SpecRepo == RepoInit /\ [][RepoNext]_vars

(* C11: once init has succeeded in a directory, every later init there,    *)
(* with either value of the bare flag, returns an io error of kind         *)
(* AlreadyExists whose message contains "Already initialized", and creates *)
(* or changes no directory, file, database row or reference.               *)
C11_Reinit ==
    [][init_done =>
          /\ init_res' = [ok |-> FALSE, kind |-> "AlreadyExists",
                          msg |-> "Already initialized", bare |-> init_res'.bare]
          /\ fs' = fs
          /\ db' = db]_vars

\* The test: init succeeded without --bare, a later init --bare was refused.
C11_Witness ==
    /\ init_done
    /\ <<ROOT_DIR, "description">> \in fs
    /\ db[ROOT_DIR].refs = {HeadRef}
    /\ init_res.kind = "AlreadyExists" /\ init_res.bare

----------------------------------------------------------------------------
(* lunar (lunar/src-tauri/src/main.rs): the commands that supervise the    *)
(* mega sidecar. Each command body runs under the ServiceState mutex and   *)
(* is one step; restart_mega_service takes the mutex twice, once in        *)
(* stop_mega_service and once in start_mega_service, and is two steps.     *)
(* A sidecar is procs[n]: alive or exited, the bootstrap node it was       *)
(* started with, and whether its output task has received Terminated.      *)

\* How many sidecar processes are spawned in all.
MaxProcs == 3

\* MegaStartParams.bootstrap_node: None, or Some(address).
NoNode == "none"
Params == {NoNode, "node1"}

ErrRunning == "Service is already running"
ErrKill == "kill failed"

\* The mutant: with_relay is set from the params before child is looked at.
start_mega_service_RelayFirst(state, params, next) ==
    IF state.child # 0
    THEN [res |-> ErrRunning, child |-> state.child,
          with_relay |-> (params # NoNode), spawned |-> 0]
    ELSE [res |-> "Ok", child |-> next, with_relay |-> (params # NoNode),
          spawned |-> next]

\* start_mega_service on ServiceState state; next is the sidecar a spawn gives.
start_mega_service(state, params, next) ==
    IF state.child # 0
    THEN [res |-> ErrRunning, child |-> state.child,
          with_relay |-> state.with_relay, spawned |-> 0]
    ELSE [res |-> "Ok", child |-> next, with_relay |-> (params # NoNode),
          spawned |-> next]

\* stop_mega_service on ServiceState state; kill_ok is what child.kill() gives.
\* child.take() has emptied child before kill is tried.
stop_mega_service(state, kill_ok) ==
    IF state.child # 0
    THEN IF kill_ok
         THEN [res |-> "Ok", child |-> 0, with_relay |-> state.with_relay,
               killed |-> state.child]
         ELSE [res |-> ErrKill, child |-> 0, with_relay |-> state.with_relay,
               killed |-> 0]
    ELSE [res |-> "Ok", child |-> 0, with_relay |-> state.with_relay, killed |-> 0]

\* mega_service_status
mega_service_status(state) == <<state.child # 0, state.with_relay>>

ServiceState == [child |-> child, with_relay |-> with_relay]

\* The process table after a spawn with params, and after a kill.
Spawned(ps, n, params) ==
    IF n = 0 THEN ps
    ELSE Append(ps, [st |-> "alive", node |-> params, term_seen |-> FALSE])
Killed(ps, n) == IF n = 0 THEN ps ELSE [ps EXCEPT ![n].st = "exited"]

\* The running service's output task has received its Terminated event.
ChildTerminated == child # 0 /\ procs[child].term_seen

\* What a command that returns leaves in svc_last.
Returned(cmd, params, res, started, kill_ok, spawned, c, r) ==
    [cmd |-> cmd, params |-> params, res |-> res, started |-> started,
     pre_child |-> child, pre_relay |-> with_relay,
     pre_terminated |-> ChildTerminated,
     kill_ok |-> kill_ok, spawned |-> spawned, post_child |-> c, post_relay |-> r,
     running |-> FALSE, relay |-> FALSE]

ServiceInit ==
    /\ DeltaIdle
    /\ BlobIdle
    /\ RepoIdle
    /\ ServiceIdle

\* A start_mega_service call as a step of the application.
DoStart(cmd, params, kill_ok) ==
    LET r == start_mega_service(ServiceState, params, Len(procs) + 1)
    IN  /\ r.spawned # 0 => Len(procs) < MaxProcs
        /\ child' = r.child
        /\ with_relay' = r.with_relay
        /\ procs' = Spawned(procs, r.spawned, params)
        /\ svc_last' = Returned(cmd, params, r.res, TRUE, kill_ok, r.spawned,
                                r.child, r.with_relay)

\* main's setup: start_mega_service(MegaStartParams::default()).
Setup ==
    /\ svc_last.cmd = "none"
    /\ DoStart("setup", NoNode, FALSE)
    /\ UNCHANGED <<restart, deltaVars, blobVars, repoVars>>

Start ==
    /\ svc_last.cmd # "none"
    /\ \E params \in Params : DoStart("start", params, FALSE)
    /\ UNCHANGED <<restart, deltaVars, blobVars, repoVars>>

Stop ==
    /\ svc_last.cmd # "none"
    /\ \E kill_ok \in BOOLEAN :
          LET r == stop_mega_service(ServiceState, kill_ok)
          IN  /\ child' = r.child
              /\ with_relay' = r.with_relay
              /\ procs' = Killed(procs, r.killed)
              /\ svc_last' = Returned("stop", NoNode, r.res, FALSE, r.killed # 0, 0,
                                      r.child, r.with_relay)
    /\ UNCHANGED <<restart, deltaVars, blobVars, repoVars>>

\* restart_mega_service, its stop_mega_service(state.clone())?
RestartStop ==
    /\ svc_last.cmd # "none"
    /\ restart.pc = "idle"
    /\ \E params \in Params, kill_ok \in BOOLEAN :
          LET r == stop_mega_service(ServiceState, kill_ok)
          IN  /\ child' = r.child
              /\ with_relay' = r.with_relay
              /\ procs' = Killed(procs, r.killed)
              /\ IF r.res = "Ok"
                 THEN /\ restart' = [pc |-> "stopped", params |-> params,
                                     killed |-> r.killed # 0]
                      /\ svc_last' = svc_last
                 ELSE /\ restart' = restart
                      /\ svc_last' = Returned("restart", params, r.res, FALSE, FALSE,
                                              0, r.child, r.with_relay)
    /\ UNCHANGED <<deltaVars, blobVars, repoVars>>

\* restart_mega_service, its start_mega_service(state, params)?
RestartStart ==
    /\ restart.pc = "stopped"
    /\ DoStart("restart", restart.params, restart.killed)
    /\ restart' = [pc |-> "idle", params |-> NoNode, killed |-> FALSE]
    /\ UNCHANGED <<deltaVars, blobVars, repoVars>>

Status ==
    /\ svc_last.cmd # "none"
    /\ svc_last' = [Returned("status", NoNode, "Ok", FALSE, FALSE, 0, child, with_relay)
                      EXCEPT !.running = mega_service_status(ServiceState)[1],
                             !.relay = mega_service_status(ServiceState)[2]]
    /\ UNCHANGED <<child, with_relay, procs, restart, deltaVars, blobVars, repoVars>>

\* A sidecar exits on its own.
SidecarExit ==
    /\ \E n \in 1..Len(procs) :
          /\ procs[n].st = "alive"
          /\ procs' = [procs EXCEPT ![n].st = "exited"]
    /\ UNCHANGED <<child, with_relay, restart, svc_last, deltaVars, blobVars, repoVars>>

\* The output task of a sidecar receives CommandEvent::Terminated, prints and
\* ends; it does not touch ServiceState.
OutputTask ==
    /\ \E n \in 1..Len(procs) :
          /\ procs[n].st = "exited"
          /\ ~procs[n].term_seen
          /\ procs' = [procs EXCEPT ![n].term_seen = TRUE]
    /\ UNCHANGED <<child, with_relay, restart, svc_last, deltaVars, blobVars, repoVars>>

ServiceNext ==
    \/ Setup \/ Start \/ Stop \/ RestartStop \/ RestartStart \/ Status
    \/ SidecarExit \/ OutputTask

SpecService == ServiceInit /\ [][ServiceNext]_vars

\* The sidecars that are alive.
Alive == {n \in 1..Len(procs) : procs[n].st = "alive"}

(* C14: start_mega_service called while ServiceState.child is Some returns *)
(* Err("Service is already running"), spawns no process, and leaves child  *)
(* and with_relay unchanged, also when its params differ from those of the *)
(* running service.                                                        *)
C14_AlreadyRunning ==
    (svc_last.started /\ svc_last.pre_child # 0) =>
        /\ svc_last.res = ErrRunning
        /\ svc_last.spawned = 0
        /\ svc_last.post_child = svc_last.pre_child
        /\ svc_last.post_relay = svc_last.pre_relay

\* A start with a bootstrap node, refused while a service without relay runs.
C14_Witness ==
    /\ svc_last.cmd = "start" /\ svc_last.params # NoNode
    /\ svc_last.pre_child # 0 /\ ~svc_last.pre_relay
    /\ svc_last.res = ErrRunning
    /\ child = svc_last.pre_child /\ ~with_relay

(* C15: in every reachable state, under any interleaving of start, stop    *)
(* and restart calls (a stop whose kill fails included), at most one       *)
(* sidecar spawned by the application is alive, and a sidecar is alive     *)
(* only while ServiceState.child is Some.                                  *)
C15_OneSidecar ==
    /\ Cardinality(Alive) <= 1
    /\ (Alive # {} => child # 0)

(* C16: a restart_mega_service call whose kill step succeeds returns Ok    *)
(* and ends with a running sidecar started with that call's params         *)
(* (with_relay true exactly when bootstrap_node is given), also when other *)
(* start and stop commands come between its stop step and its start step.  *)
C16_Restart ==
    (svc_last.cmd = "restart" /\ svc_last.kill_ok) =>
        /\ svc_last.res = "Ok"
        /\ svc_last.spawned # 0
        /\ svc_last.post_child = svc_last.spawned
        /\ procs[svc_last.post_child].node = svc_last.params
        /\ svc_last.post_relay = (svc_last.params # NoNode)

(* C17, its last part: after the sidecar has exited on its own and its    *)
(* output task has received Terminated, a start_mega_service call that     *)
(* follows with no stop in between succeeds.                               *)
C17_StartAfterExit ==
    (svc_last.cmd = "start" /\ svc_last.pre_terminated) => svc_last.res = "Ok"

====
